---------------------------- MODULE Spec2Model ----------------------------
(***************************************************************************)
(* Backend orchestration core of LocalAI (pkg/model initializers, as kept  *)
(* in src/core/http/app.go lines 188-734, and core/startup/startup.go):    *)
(* backend discovery, variant selection, the process supervisor, the       *)
(* process registry with the single-active-backend policy and the greedy   *)
(* loader.                                                                 *)
(***************************************************************************)
EXTENDS Integers, Sequences, FiniteSets, TLC

(***************************************************************************)
(* Strings (Go's strings package), computed on the characters.             *)
(***************************************************************************)
Contains(s, sub) ==
    \E i \in 1..(Len(s) - Len(sub) + 1) : SubSeq(s, i, i + Len(sub) - 1) = sub

HasSuffix(s, suf) ==
    /\ Len(s) >= Len(suf)
    /\ SubSeq(s, Len(s) - Len(suf) + 1, Len(s)) = suf

SeqToSet(s) == {s[i] : i \in DOMAIN s}

IndexOf(s, x) == IF x \in SeqToSet(s) THEN CHOOSE i \in DOMAIN s : s[i] = x ELSE 0

NoDuplicates(s) == \A i, j \in DOMAIN s : s[i] = s[j] => i = j

\* every enumeration of the set S as a sequence without repetition
Orders(S) ==
    {p \in [1..Cardinality(S) -> S] : \A i, j \in 1..Cardinality(S) : p[i] = p[j] => i = j}

(***************************************************************************)
(* Backend names (const block).                                            *)
(***************************************************************************)
LlamaGGML == "llama-ggml"
LLamaCPP == "llama-cpp"
LLamaCPPAVX2 == "llama-cpp-avx2"
LLamaCPPAVX == "llama-cpp-avx"
LLamaCPPFallback == "llama-cpp-fallback"
LLamaCPPCUDA == "llama-cpp-cuda"
LLamaCPPHipblas == "llama-cpp-hipblas"
LLamaCPPSycl16 == "llama-cpp-sycl_16"
LLamaCPPSycl32 == "llama-cpp-sycl_32"
LLamaCPPGRPC == "llama-cpp-grpc"
BertEmbeddingsBackend == "bert-embeddings"
WhisperBackend == "whisper"
PiperBackend == "piper"
LCHuggingFaceBackend == "huggingface"
LocalStoreBackend == "local-store"

(***************************************************************************)
(* Bounds of the model.                                                    *)
(***************************************************************************)
\* the most entries the backend directory holds
MaxDirEntries == 4

\* the most GPUs xsysinfo.GPUs reports
MaxGpus == 2
\* the largest health-check attempt count a BackendLoader request asks for
MaxAttempts == 2
\* the most backend processes started in one behaviour
MaxProcesses == 3

VARIABLES
    entry,          \* os.ReadDir of the backend directory: entries sorted by name
    assetDirOk,     \* whether os.ReadDir succeeds
    autoDetect,     \* DISABLE_AUTODETECT != "true"
    gpus,           \* xsysinfo.GPUs(): [ok, list], list holding each gpu.String()
    cpuCaps,        \* the CPU features xsysinfo.HasCPUCaps answers for
    grpcServers,    \* the environment variable LLAMACPP_GRPC_SERVERS
    listed,         \* what the calls of ListAvailableBackends returned, in call order
    selected,       \* the calls of selectGRPCProcess made: [backend, f16, proc]
    active,         \* the callers that make a request
    models,         \* ModelLoader.models, the process registry: model name -> handle
    processes,      \* every backend process started so far: [id, path, alive]
    loading,        \* the model names a LoadModel call is loading
    pc,             \* where each caller's request stands
    req,            \* the options of each caller's request
    bl,             \* the options of the BackendLoader call each caller is in
    gl,             \* GreedyLoader's locals: autoLoadBackends, position, key, err
    ld,             \* grpcModel's locals: client, i, and the health checks and sleeps made
    res,            \* what each caller's request returned: [client, err]
    tr,             \* what each request did so far (history, for the claims)
    options,        \* Startup's options for the watchdog
    ctx,            \* options.Context: "live" or "cancelled"
    stopAll,        \* the goroutine of Startup that waits for the context and stops all
    wd,             \* the watchdog: status, timeouts, scheduler phase, tracked handles
    env,            \* the process environment: HF_HOME, TRANSFORMERS_CACHE, HUGGINGFACE_HUB_CACHE
    boot            \* Startup's preload of options.LoadToMemory and what Startup returned

hostVars == <<entry, assetDirOk, autoDetect, gpus, cpuCaps, grpcServers>>
loadVars == <<active, models, processes, loading, pc, req, bl, gl, ld, res, tr>>
bgVars == <<options, ctx, stopAll, wd, boot>>
vars == <<entry, assetDirOk, autoDetect, gpus, cpuCaps, grpcServers, listed, selected,
          active, models, processes, loading, pc, req, bl, gl, ld, res, tr,
          options, ctx, stopAll, wd, env, boot>>

(***************************************************************************)
(* The callers of the loader and the values their locals start with.       *)
(***************************************************************************)
Callers == {"c1", "c2"}
Models == {"m1", "m2"}

\* a nil client (a nil *Model): no process, no address
NoClient == [process |-> 0, address |-> ""]
\* an external-backend table without entries
NoExternal == [n \in {} |-> ""]

NoRequest ==
    [kind |-> "", model |-> "", backendString |-> "", singleActiveBackend |-> FALSE,
     grpcAttempts |-> 0, f16 |-> FALSE, externalBackends |-> NoExternal]
NoBackendCall ==
    [backendString |-> "", backend |-> "", model |-> "", singleActiveBackend |-> FALSE,
     grpcAttempts |-> 0, f16 |-> FALSE, externalBackends |-> NoExternal, ret |-> ""]
NoGreedy == [autoLoadBackends |-> <<>>, idx |-> 0, err |-> <<>>]
\* rpc holds the reply of the LoadModel RPC once it was made
NoLoad ==
    [client |-> NoClient, err |-> "", i |-> 0, checks |-> 0, sleeps |-> 0, rpc |-> <<>>]
NoResult == [client |-> NoClient, err |-> <<>>]
\* a stopped process
Stopped == [id |-> "", path |-> "", alive |-> FALSE]
\* what a request did so far: the keys its loop tried and the backends it retried
\* with, the [key, err] of the BackendLoader calls of GreedyLoader that failed
\* (forgotten when GreedyLoader returns a client), the attempts that returned a
\* usable client, the processes it started,
\* the registered names it added or removed, whether it evicted and discovered
\* the backends, where it found the model loaded ("checkIsLoaded", "loadModel"),
\* whether it began while a request for the same model was running, and the
\* names its eviction could not stop
NoTrace ==
    [attempted |-> <<>>, retried |-> <<>>, failures |-> <<>>, succeeded |-> {}, spawned |-> {},
     evicted |-> FALSE, discovered |-> FALSE, changed |-> {}, hit |-> "",
     overlap |-> FALSE, stopFailed |-> {}]

\* no request was made yet
(***************************************************************************)
(* Startup: the watchdog and the goroutines that wait for the context.     *)
(***************************************************************************)
\* the largest timeout, in scan intervals, an option holds
MaxTimeout == 2

\* the options of a server without watchdog
NoWatchDogOptions ==
    [WatchDog |-> FALSE, WatchDogBusyTimeout |-> MaxTimeout, WatchDogIdleTimeout |-> MaxTimeout]

StartupOptions ==
    {[WatchDog |-> w, WatchDogBusyTimeout |-> b, WatchDogIdleTimeout |-> i] :
        w \in BOOLEAN, b \in 1..MaxTimeout, i \in 1..MaxTimeout}

\* no watchdog was made
NoWatchDog ==
    [status |-> "off", busyTimeout |-> 0, idleTimeout |-> 0, phase |-> "sleep",
     marks |-> [m \in {} |-> 0], stopped |-> {}, failed |-> {}]

\* the watchdog made with the two timeouts exchanged
NewWatchDogSwapped(o) ==
    [status |-> "running", busyTimeout |-> o.WatchDogIdleTimeout,
     idleTimeout |-> o.WatchDogBusyTimeout, phase |-> "sleep",
     marks |-> [m \in {} |-> 0], stopped |-> {}, failed |-> {}]

\* model.NewWatchDog(ml, busy timeout, idle timeout, ...), then go wd.Run()
NewWatchDog(o) ==
    [status |-> "running", busyTimeout |-> o.WatchDogBusyTimeout,
     idleTimeout |-> o.WatchDogIdleTimeout, phase |-> "sleep",
     marks |-> [m \in {} |-> 0], stopped |-> {}, failed |-> {}]

\* the cache-location variables grpcModel gives a default, and ml.ModelPath
EnvNames == {"HF_HOME", "TRANSFORMERS_CACHE", "HUGGINGFACE_HUB_CACHE"}
ModelPath == "/models"
EnvUnset == [v \in EnvNames |-> ""]

\* options.LoadToMemory is nil: Startup preloads nothing
NoBoot == [state |-> "off", loaders |-> FALSE, err |-> ""]

\* the goroutines and the watchdog Startup leaves: the context live, the
\* goroutine of StopAllGRPC waiting, the watchdog running when options.WatchDog
Background(o) ==
    /\ options = o
    /\ ctx = "live"
    /\ stopAll = "waiting"
    /\ wd = IF o.WatchDog THEN NewWatchDog(o) ELSE NoWatchDog

\* the state Startup leaves when it preloads nothing, no cache-location
\* variable being set by the caller
Startup(o) ==
    /\ Background(o)
    /\ env = EnvUnset
    /\ boot = NoBoot

BackgroundOff == Startup(NoWatchDogOptions)

LoadIdle ==
    /\ active = Callers
    /\ models = [m \in {} |-> NoClient]
    /\ processes = <<>>
    /\ loading = {}
    /\ pc = [c \in Callers |-> "idle"]
    /\ req = [c \in Callers |-> NoRequest]
    /\ bl = [c \in Callers |-> NoBackendCall]
    /\ gl = [c \in Callers |-> NoGreedy]
    /\ ld = [c \in Callers |-> NoLoad]
    /\ res = [c \in Callers |-> NoResult]
    /\ tr = [c \in Callers |-> NoTrace]

(***************************************************************************)
(* The backend directory.  os.ReadDir returns the entries sorted by file   *)
(* name: DirUniverse lists the names the model draws from in that (byte)   *)
(* order, and a directory is the subsequence of the entries present.       *)
(***************************************************************************)
File(n) == [name |-> n, isDir |-> FALSE]
Dir(n) == [name |-> n, isDir |-> TRUE]

DirUniverse ==
    << File(BertEmbeddingsBackend), File(LCHuggingFaceBackend), File(LLamaCPP),
       File(LLamaCPPAVX), File("llama-cpp-avx.log"), File(LLamaCPPAVX2), File(LLamaCPPCUDA),
       File(LLamaCPPFallback), File(LlamaGGML), File(LocalStoreBackend),
       File(PiperBackend), Dir("rwkv"), File(WhisperBackend), File("whisper.log") >>

\* the files of the llama-cpp family, for the variant selection
VariantUniverse ==
    << File(LLamaCPP), File(LLamaCPPAVX), File(LLamaCPPAVX2), File(LLamaCPPCUDA),
       File(LLamaCPPFallback), File(LLamaCPPGRPC), File(LLamaCPPHipblas),
       File(LLamaCPPSycl16), File(LLamaCPPSycl32) >>

RECURSIVE Pick(_, _, _)
Pick(u, S, i) ==
    IF i > Len(u) THEN <<>>
    ELSE IF i \in S THEN <<u[i]>> \o Pick(u, S, i + 1) ELSE Pick(u, S, i + 1)

ReadDir(u, S) == Pick(u, S, 1)

Directories ==
    {ReadDir(DirUniverse, S) :
        S \in {T \in SUBSET DOMAIN DirUniverse : Cardinality(T) <= MaxDirEntries}}

(***************************************************************************)
(* backendsInAssetDir                                                      *)
(***************************************************************************)
excludeBackends == <<LocalStoreBackend>>

\* the first loop: the entries that do not become a key of the backends map
\* the first loop without the skip of the llama-cpp family
SkipEntryNoFamily(e, ad) ==
    \/ e.name \in SeqToSet(excludeBackends)
    \/ e.isDir
    \/ HasSuffix(e.name, ".log")

SkipEntry(e, ad) ==
    \/ e.name \in SeqToSet(excludeBackends)
    \/ e.isDir
    \/ HasSuffix(e.name, ".log")
    \/ (Contains(e.name, LLamaCPP) /\ ~Contains(e.name, LLamaCPPFallback) /\ ad)

ScannedKeys(ents, ad) ==
    {ents[i].name : i \in {j \in DOMAIN ents : ~SkipEntry(ents[j], ad)}}

\* the checks of the second loop, in the order the code makes them on one entry;
\* a found* flag is set exactly when its variant is appended
VariantChecks ==
    << LLamaCPPAVX2, LLamaCPPAVX, LLamaCPPFallback, LLamaCPPGRPC,
       LLamaCPPCUDA, LLamaCPPHipblas, LLamaCPPSycl16, LLamaCPPSycl32 >>

RECURSIVE CheckEntry(_, _, _)
CheckEntry(name, acc, k) ==
    IF k > Len(VariantChecks) THEN acc
    ELSE IF Contains(name, VariantChecks[k]) /\ VariantChecks[k] \notin SeqToSet(acc)
         THEN CheckEntry(name, Append(acc, VariantChecks[k]), k + 1)
         ELSE CheckEntry(name, acc, k + 1)

RECURSIVE FoldVariants(_, _, _)
FoldVariants(ents, acc, i) ==
    IF i > Len(ents) THEN acc
    ELSE FoldVariants(ents, CheckEntry(ents[i].name, acc, 1), i + 1)

\* the member-variant list of the canonical llama-cpp entry
LlamaVariants(ents, ad) ==
    IF ad /\ LLamaCPP \notin ScannedKeys(ents, ad) THEN FoldVariants(ents, <<>>, 1) ELSE <<>>

\* the keys of the backends map when the ordering starts
BackendKeys(ents, ad) ==
    ScannedKeys(ents, ad) \cup (IF LlamaVariants(ents, ad) # <<>> THEN {LLamaCPP} ELSE {})

priorityList == <<LLamaCPP, LlamaGGML, LLamaCPPFallback>>
toTheEnd == <<LCHuggingFaceBackend, BertEmbeddingsBackend>>

\* orderedmap.Set: a new key goes to the end, a known key keeps its place
OMSet(om, k) == IF k \in SeqToSet(om) THEN om ELSE Append(om, k)

RECURSIVE SetPresent(_, _, _, _)
SetPresent(om, names, keys, i) ==
    IF i > Len(names) THEN om
    ELSE SetPresent(IF names[i] \in keys THEN OMSet(om, names[i]) ELSE om, names, keys, i + 1)

\* a mutant of RangeKeys: the range loop without its toTheEnd test
RangeKeysAll(keys, om) == {k \in keys : k \notin SeqToSet(om)}

\* the keys the range loop over the map sets: not deferred, not yet set
RangeKeys(keys, om) ==
    {k \in keys : k \notin SeqToSet(toTheEnd) /\ k \notin SeqToSet(om)}

\* the orders in which Go's range over the backends map can visit those keys
MapOrders(keys) ==
    Orders(RangeKeys(keys, SetPresent(<<>>, priorityList, keys, 1)))

OrderBackends(keys, order) ==
    LET prio == SetPresent(<<>>, priorityList, keys, 1)
        mid == SetPresent(prio, order, RangeKeys(keys, prio), 1)
    IN  SetPresent(mid, toTheEnd, keys, 1)

\* (list, err) of one call, the map being ranged over in the given order;
\* variants is the value the call built for the key llama-cpp
backendsInAssetDir(ents, ok, ad, order) ==
    IF ~ok THEN [list |-> <<>>, err |-> TRUE, variants |-> <<>>]
    ELSE [list |-> OrderBackends(BackendKeys(ents, ad), order), err |-> FALSE,
          variants |-> LlamaVariants(ents, ad)]

(***************************************************************************)
(* ListAvailableBackends: one call of backendsInAssetDir; a behaviour calls *)
(* it up to twice on the same directory.                                   *)
(***************************************************************************)
ListAvailableBackends ==
    /\ Len(listed) <= 1
    /\ \E order \in MapOrders(BackendKeys(entry, autoDetect)) :
         listed' = Append(listed, backendsInAssetDir(entry, assetDirOk, autoDetect, order))
    /\ UNCHANGED <<hostVars, bgVars, env, selected, loadVars>>

\* a host without GPU, with a plain CPU and no remote-RPC override
NoGpuHost ==
    /\ gpus = [ok |-> TRUE, list |-> <<>>]
    /\ cpuCaps = {}
    /\ grpcServers = ""

InitDir ==
    /\ entry \in Directories
    /\ assetDirOk \in BOOLEAN
    /\ autoDetect \in BOOLEAN
    /\ NoGpuHost
    /\ listed = <<>>
    /\ selected = <<>>
    /\ LoadIdle
    /\ BackgroundOff

NextDir == ListAvailableBackends

SpecDir == InitDir /\ [][NextDir]_vars

(***************************************************************************)
(* selectGRPCProcess.  A path backendPath(assetDir, x) is modelled by its  *)
(* last element x; "" is the empty result.                                 *)
(***************************************************************************)
AVX2 == "avx2"
AVX == "avx"

\* os.Stat(backendPath(assetDir, name)) returns no error
Stat(ents, name) == \E i \in DOMAIN ents : ents[i].name = name

\* the three vendor tests made on one GPU, in the code's order
CheckNvidia(ents, g, acc) ==
    IF Contains(g, "nvidia") /\ Stat(ents, LLamaCPPCUDA)
    THEN [acc EXCEPT !.grpcProcess = LLamaCPPCUDA, !.foundCUDA = TRUE] ELSE acc

CheckAMD(ents, g, acc) ==
    IF Contains(g, "amd") /\ Stat(ents, LLamaCPPHipblas)
    THEN [acc EXCEPT !.grpcProcess = LLamaCPPHipblas, !.foundAMDGPU = TRUE] ELSE acc

SyclVariant(f16) == IF f16 THEN LLamaCPPSycl16 ELSE LLamaCPPSycl32

CheckIntel(ents, g, f16, acc) ==
    IF Contains(g, "intel") /\ Stat(ents, SyclVariant(f16))
    THEN [acc EXCEPT !.grpcProcess = SyclVariant(f16), !.foundIntelGPU = TRUE] ELSE acc

RECURSIVE ScanGPUs(_, _, _, _, _)
ScanGPUs(ents, gs, f16, acc, i) ==
    IF i > Len(gs) THEN acc
    ELSE ScanGPUs(ents, gs, f16,
                  CheckIntel(ents, gs[i], f16, CheckAMD(ents, gs[i], CheckNvidia(ents, gs[i], acc))),
                  i + 1)

\* a mutant of GPUFound: the AMD flag is forgotten
GPUFoundNoAMD(acc) == acc.foundCUDA \/ acc.foundIntelGPU

GPUFound(acc) == acc.foundCUDA \/ acc.foundAMDGPU \/ acc.foundIntelGPU

SelectCPU(ents, caps) ==
    IF AVX2 \in caps THEN (IF Stat(ents, LLamaCPPAVX2) THEN LLamaCPPAVX2 ELSE "")
    ELSE IF AVX \in caps THEN (IF Stat(ents, LLamaCPPAVX) THEN LLamaCPPAVX ELSE "")
    ELSE (IF Stat(ents, LLamaCPPFallback) THEN LLamaCPPFallback ELSE "")

selectGRPCProcess(backend, ents, f16, g, caps, servers) ==
    IF backend # LLamaCPP THEN ""
    ELSE IF servers # "" THEN LLamaCPPGRPC
    ELSE LET start == [grpcProcess |-> "", foundCUDA |-> FALSE,
                       foundAMDGPU |-> FALSE, foundIntelGPU |-> FALSE]
             acc == IF g.ok THEN ScanGPUs(ents, g.list, f16, start, 1) ELSE start
         IN  IF GPUFound(acc) THEN acc.grpcProcess ELSE SelectCPU(ents, caps)

(***************************************************************************)
(* The hosts selectGRPCProcess is checked on.                              *)
(***************************************************************************)
GpuStrings == {"vendor: nvidia", "vendor: amd", "vendor: intel", "vendor: NVIDIA"}

GpuLists == UNION {[1..n -> GpuStrings] : n \in 0..MaxGpus}

GpuReports == {[ok |-> TRUE, list |-> l] : l \in GpuLists} \cup {[ok |-> FALSE, list |-> <<>>]}

VariantDirectories ==
    {ReadDir(VariantUniverse, S) :
        S \in {T \in SUBSET DOMAIN VariantUniverse : Cardinality(T) <= MaxDirEntries}}

SelectCall ==
    /\ selected = <<>>
    /\ \E backend \in {LLamaCPP, WhisperBackend}, f16 \in BOOLEAN :
         selected' = << [backend |-> backend, f16 |-> f16,
                         proc |-> selectGRPCProcess(backend, entry, f16, gpus, cpuCaps, grpcServers)] >>
    /\ UNCHANGED <<hostVars, bgVars, env, listed, loadVars>>

InitSelect ==
    /\ entry \in VariantDirectories
    /\ assetDirOk = TRUE
    /\ autoDetect = TRUE
    /\ gpus \in GpuReports
    /\ cpuCaps \in SUBSET {AVX2, AVX}
    /\ grpcServers \in {"", "10.0.0.2:50051"}
    /\ listed = <<>>
    /\ selected = <<>>
    /\ LoadIdle
    /\ BackgroundOff

NextSelect == SelectCall

SpecSelect == InitSelect /\ [][NextSelect]_vars

(***************************************************************************)
(* Claims about the candidate list.                                        *)
(***************************************************************************)
InPriority(n) == n \in SeqToSet(priorityList)
Deferred(n) == n \in SeqToSet(toTheEnd)

CandidateOrderOk(l) ==
    /\ NoDuplicates(l)
    /\ \A i, j \in DOMAIN l :
         /\ (InPriority(l[i]) /\ ~InPriority(l[j])) => i < j
         /\ (InPriority(l[i]) /\ InPriority(l[j]) /\ i < j)
               => IndexOf(priorityList, l[i]) < IndexOf(priorityList, l[j])
         /\ (Deferred(l[i]) /\ ~Deferred(l[j])) => j < i
         /\ (Deferred(l[i]) /\ Deferred(l[j]) /\ i < j)
               => IndexOf(toTheEnd, l[i]) < IndexOf(toTheEnd, l[j])

\* C8: every candidate list backendsInAssetDir returns holds no name twice, has
\* its priority names (llama-cpp, llama-ggml, llama-cpp-fallback, in that order)
\* before every other name and its deferred names (huggingface, then
\* bert-embeddings) after every other name.
C8_CandidateListOrdered ==
    \A k \in DOMAIN listed : ~listed[k].err => CandidateOrderOk(listed[k].list)

\* a returned list with a priority name, a deferred name and two names between
C8_Witness ==
    \E k \in DOMAIN listed :
        LET l == listed[k].list
        IN  /\ ~listed[k].err
            /\ \E i \in DOMAIN l : InPriority(l[i])
            /\ \E i \in DOMAIN l : Deferred(l[i])
            /\ Cardinality({i \in DOMAIN l : ~InPriority(l[i]) /\ ~Deferred(l[i])}) >= 2

(***************************************************************************)
(* Claims about the variant selection.                                     *)
(***************************************************************************)
GPUVariants == {LLamaCPPCUDA, LLamaCPPHipblas, LLamaCPPSycl16, LLamaCPPSycl32}
CPUVariants == {LLamaCPPAVX2, LLamaCPPAVX, LLamaCPPFallback}

\* the variant of a GPU whose vendor matches, "" when none does
VendorVariants(g, f16) ==
    (IF Contains(g, "nvidia") THEN {LLamaCPPCUDA} ELSE {})
    \cup (IF Contains(g, "amd") THEN {LLamaCPPHipblas} ELSE {})
    \cup (IF Contains(g, "intel") THEN {SyclVariant(f16)} ELSE {})

InstalledGPUMatch(f16) ==
    \E i \in DOMAIN gpus.list : \E v \in VendorVariants(gpus.list[i], f16) : Stat(entry, v)

\* C9: with no remote-RPC override, whenever an attached GPU's vendor matches
\* and the variant for it is installed, selectGRPCProcess for llama-cpp returns
\* a GPU variant that is installed, never a CPU-only variant.
C9_GPUDominatesCPU ==
    \A k \in DOMAIN selected :
        (selected[k].backend = LLamaCPP /\ grpcServers = "" /\ InstalledGPUMatch(selected[k].f16))
            => /\ selected[k].proc \in GPUVariants
               /\ selected[k].proc \notin CPUVariants
               /\ Stat(entry, selected[k].proc)

\* a call on a host with a matching GPU whose variant is installed beside a
\* CPU variant the CPU supports
C9_Witness ==
    \E k \in DOMAIN selected :
        /\ selected[k].backend = LLamaCPP
        /\ grpcServers = ""
        /\ InstalledGPUMatch(selected[k].f16)
        /\ AVX2 \in cpuCaps
        /\ Stat(entry, LLamaCPPAVX2)
        /\ selected[k].proc \in GPUVariants

(***************************************************************************)
(* The process registry (ModelLoader.models) and the processes.  The       *)
(* methods below are called by the code of src/ but defined outside it;    *)
(* they are modelled from the specification (sections 3, 4.3, 4.4, 5).     *)
(***************************************************************************)
\* checkLoaded(name): the handle registered for name, nil when none; no side effect
CheckIsLoaded(name) == IF name \in DOMAIN models THEN models[name] ELSE NoClient

\* register(handle): the registry with handle h under name
Register(name, h) ==
    [m \in DOMAIN models \cup {name} |-> IF m = name THEN h ELSE models[m]]

\* the registry without the handles of names
Unregister(names) == [m \in DOMAIN models \ names |-> models[m]]

\* the processes, those started for one of names being stopped
StopProcesses(names) ==
    [p \in DOMAIN processes |->
        IF processes[p].id \in names THEN Stopped ELSE processes[p]]

\* allExcept(s): the registered names StopGRPC(allExcept(s)) stops
allExcept(s) == DOMAIN models \ {s}

\* NewOptions: the options a caller did not set
DefaultAttempts == 1
DefaultSingleActiveBackend == FALSE

(***************************************************************************)
(* BackendLoader: the backend name.                                        *)
(***************************************************************************)
UpperCase == "ABCDEFGHIJKLMNOPQRSTUVWXYZ"
LowerCase == "abcdefghijklmnopqrstuvwxyz"

LowerChar(ch) ==
    IF \E i \in 1..Len(UpperCase) : SubSeq(UpperCase, i, i) = ch
    THEN LET i == CHOOSE j \in 1..Len(UpperCase) : SubSeq(UpperCase, j, j) = ch
         IN  SubSeq(LowerCase, i, i)
    ELSE ch

RECURSIVE ToLower(_)
ToLower(str) ==
    IF Len(str) = 0 THEN ""
    ELSE LowerChar(SubSeq(str, 1, 1)) \o ToLower(SubSeq(str, 2, Len(str)))

Aliases ==
    [n \in {"go-llama", "llama", "embedded-store", "langchain-huggingface"} |->
        CASE n = "go-llama" -> LLamaCPP
          [] n = "llama" -> LLamaCPP
          [] n = "embedded-store" -> LocalStoreBackend
          [] n = "langchain-huggingface" -> LCHuggingFaceBackend]

ResolveBackend(backendString) ==
    LET backend == ToLower(backendString)
    IN  IF backend \in DOMAIN Aliases THEN Aliases[backend] ELSE backend

(***************************************************************************)
(* The requests the callers make.                                          *)
(***************************************************************************)
BackendStrings == {"Whisper", "llama", "../evil"}
ExternalTables == {NoExternal, [n \in {"ext-tts"} |-> "10.0.0.9:50051"]}
\* the tables of the requests that name an external backend: an address, a file
RegisteredTables ==
    {[n \in {"ext-tts"} |-> "10.0.0.9:50051"], [n \in {"ext-tts"} |-> "/opt/backends/ext-tts"]}

LoadRequest(kind, m, b, sab, a, e) ==
    [kind |-> kind, model |-> m, backendString |-> b, singleActiveBackend |-> sab,
     grpcAttempts |-> a, f16 |-> FALSE, externalBackends |-> e]

\* the requests of a caller that is alone
SingleRequests ==
    {LoadRequest("greedy", m, "", sab, a, e) :
        m \in Models, sab \in BOOLEAN, a \in {DefaultAttempts, MaxAttempts},
        e \in ExternalTables}
    \cup {LoadRequest("backend", m, b, sab, a, NoExternal) :
        m \in Models, b \in BackendStrings, sab \in BOOLEAN, a \in 0..MaxAttempts}
    \cup {LoadRequest("backend", m, "ext-tts", FALSE, DefaultAttempts, e) :
        m \in Models, e \in RegisteredTables}

\* the requests made concurrently
ConcurrentRequests ==
    {LoadRequest("greedy", m, "", sab, DefaultAttempts, NoExternal) :
        m \in Models, sab \in BOOLEAN}
    \cup {LoadRequest("backend", m, "Whisper", sab, DefaultAttempts, NoExternal) :
        m \in Models, sab \in BOOLEAN}

Requests == IF active = Callers THEN ConcurrentRequests ELSE SingleRequests

\* the request of a caller has ended
Ended(c) == pc[c] \in {"done", "panic"}

\* the options of a BackendLoader call made with the options o
BackendCall(o, ret) ==
    [backendString |-> o.backendString, backend |-> "", model |-> o.model,
     singleActiveBackend |-> o.singleActiveBackend, grpcAttempts |-> o.grpcAttempts,
     f16 |-> o.f16, externalBackends |-> o.externalBackends, ret |-> ret]

\* a caller calls GreedyLoader or BackendLoader
\* (the callers and the models being interchangeable, the first request is c1's
\* and names m1)
Request(c) ==
    /\ pc[c] = "idle"
    /\ ctx = "live"
    /\ boot.state \in {"off", "loading"}
    /\ c = "c1" \/ pc["c1"] # "idle"
    /\ c \in active
    /\ \E r \in Requests :
         /\ c = "c1" => r.model = "m1"
         /\ req' = [req EXCEPT ![c] = r]
         /\ pc' = [pc EXCEPT ![c] = IF r.kind = "greedy" THEN "gl_check" ELSE "bl_begin"]
         /\ bl' = [bl EXCEPT ![c] = IF r.kind = "greedy" THEN NoBackendCall
                                    ELSE BackendCall(r, "top")]
         /\ tr' = [tr EXCEPT ![c].overlap =
                      \E d \in Callers \ {c} :
                          /\ pc[d] # "idle" /\ ~Ended(d)
                          /\ req[d].model = r.model]
    /\ UNCHANGED <<hostVars, bgVars, env, listed, selected, active, models, processes, loading, gl, ld, res>>

(***************************************************************************)
(* BackendLoader, up to its call of LoadModel.                             *)
(***************************************************************************)
\* the names "if o.singleActiveBackend { ml.StopGRPC(allExcept(o.model)) }" stops
EvictionSetAlways(o) == allExcept(o.model)
EvictionSet(o) == IF o.singleActiveBackend THEN allExcept(o.model) ELSE {}

\* StopGRPC: the names, among those it is to stop, whose stop fails; it goes on
\* to the others, and a handle it could not stop stays as it was
StopFailures(stop) == SUBSET stop

\* the error StopGRPC returns: the stop errors joined, nil when none failed
StopError(failed) == IF failed = {} THEN "" ELSE "error while stopping"

\* the loaders giving up on an eviction error
EvictionAbortsOnError(err) == err # ""

\* what the loaders do with the error of StopGRPC: it is logged, nothing else
EvictionAborts(err) == FALSE

\* StopGRPC(allExcept(o.model)) when the request asks for a single active backend
BackendLoaderBegin(c) ==
    /\ pc[c] = "bl_begin"
    /\ LET o == bl[c]
           stop == EvictionSet(o)
       IN  \E failed \in StopFailures(stop) :
             /\ models' = Unregister(stop \ failed)
             /\ processes' = StopProcesses(stop \ failed)
             /\ bl' = [bl EXCEPT ![c].backend = ResolveBackend(o.backendString)]
             /\ tr' = [tr EXCEPT ![c].evicted = @ \/ o.singleActiveBackend,
                                 ![c].changed = @ \cup (stop \ failed),
                                 ![c].stopFailed = @ \cup failed]
             /\ IF EvictionAborts(StopError(failed))
                THEN /\ ld' = [ld EXCEPT ![c] = [NoLoad EXCEPT !.err = StopError(failed)]]
                     /\ pc' = [pc EXCEPT ![c] = "bl_return"]
                ELSE /\ pc' = [pc EXCEPT ![c] = "lm_enter"]
                     /\ UNCHANGED ld
    /\ UNCHANGED <<hostVars, bgVars, env, listed, selected, active, loading, req, gl, res>>

\* the name LoadModel is called with
LoadKeyBackend(o) == o.backendString
LoadKey(o) == o.model

(***************************************************************************)
(* LoadModel(name, loader): load if absent.  It returns the registered     *)
(* handle when there is one; else it runs the loader, no other load of the *)
(* same name running meanwhile, and registers the handle the loader        *)
(* returns.                                                                *)
(***************************************************************************)
LoadModelEnter(c) ==
    /\ pc[c] = "lm_enter"
    /\ LoadKey(bl[c]) \notin loading
    /\ IF LoadKey(bl[c]) \in DOMAIN models
       THEN /\ ld' = [ld EXCEPT ![c] = [NoLoad EXCEPT !.client = models[LoadKey(bl[c])]]]
            /\ tr' = [tr EXCEPT ![c].hit = "loadModel"]
            /\ pc' = [pc EXCEPT ![c] = "bl_return"]
            /\ UNCHANGED loading
       ELSE /\ ld' = [ld EXCEPT ![c] = NoLoad]
            /\ loading' = loading \cup {LoadKey(bl[c])}
            /\ pc' = [pc EXCEPT ![c] = "gm_start"]
            /\ UNCHANGED tr
    /\ UNCHANGED <<hostVars, bgVars, env, listed, selected, active, models, processes, req, bl, gl, res>>

\* the loader returned an error: LoadModel returns it, nothing registered
LoaderFails(c, err) ==
    /\ ld' = [ld EXCEPT ![c].client = NoClient, ![c].err = err]
    /\ loading' = loading \ {LoadKey(bl[c])}
    /\ pc' = [pc EXCEPT ![c] = "bl_return"]

\* deleteProcess(name): the handle of name leaves the registry and the process
\* started for name is stopped
deleteProcess(c, name) ==
    /\ models' = Unregister({name})
    /\ processes' = StopProcesses({name})
    /\ tr' = [tr EXCEPT ![c].changed = @ \cup ({name} \cap DOMAIN models)]

(***************************************************************************)
(* grpcModel: the loader BackendLoader hands to LoadModel.                 *)
(***************************************************************************)
\* utils.VerifyPath(backendPath(assetDir, backend), assetDir)
VerifyPath(backend) == ~Contains(backend, "..")

\* the executable of a backend of the asset directory
ResolveProcess(backend, f16) ==
    LET selectedProcess ==
            IF autoDetect
            THEN selectGRPCProcess(backend, entry, f16, gpus, cpuCaps, grpcServers)
            ELSE ""
    IN  IF selectedProcess # "" THEN selectedProcess ELSE backend

\* os.Stat(backendPath(assetDir, name)) finds something; the empty name is the
\* backend directory itself
StatBackend(name) == assetDirOk /\ (name = "" \/ Stat(entry, name))

\* the path is a directory, which startProcess cannot execute
IsDirectory(name) ==
    name = "" \/ \E i \in DOMAIN entry : entry[i].name = name /\ entry[i].isDir

\* the files outside the asset directory an external backend may name
ExternalFiles == {"/opt/backends/ext-tts"}

LocalAddress == "127.0.0.1:port"

\* getFreeAddress and startProcess: the process is started, or one of them fails
StartProcess(c, path, canRun) ==
    \E out \in {"started", "noport", "nostart"} :
        CASE out = "started" ->
               /\ canRun
               /\ Len(processes) < MaxProcesses
               /\ processes' = Append(processes,
                     [id |-> bl[c].model, path |-> path, alive |-> TRUE])
               /\ ld' = [ld EXCEPT ![c].client =
                     [process |-> Len(processes) + 1, address |-> LocalAddress]]
               /\ tr' = [tr EXCEPT ![c].spawned = @ \cup {Len(processes) + 1}]
               /\ pc' = [pc EXCEPT ![c] = "gm_health"]
               /\ UNCHANGED loading
          [] out = "noport" ->
               /\ LoaderFails(c, "failed allocating free ports")
               /\ UNCHANGED <<processes, tr>>
          [] out = "nostart" ->
               /\ LoaderFails(c, "failed to start the process")
               /\ UNCHANGED <<processes, tr>>

\* the variable set whatever it holds
DefaultEnvAlways(value) == ModelPath

\* "If no specific model path is set for transformers/HF, set it to the model
\* path": the value of a variable after the loop over the three names
DefaultEnv(value) == IF value = "" THEN ModelPath ELSE value

\* every registered value taken for an address
IsExternalFileNever(uri) == FALSE

\* os.Stat(uri) finds the registered value of an external backend on disk
IsExternalFile(uri) == uri \in ExternalFiles

\* the test of VerifyPath left out
PathRejectedNever(backend) == FALSE

\* "refering to a backend not in asset dir": VerifyPath returned an error
PathRejected(backend) == ~VerifyPath(backend)

\* from the entry of the loader to the started process (or the bound address)
GrpcModelStart(c) ==
    /\ pc[c] = "gm_start"
    /\ LET o == bl[c]
           backend == o.backend
       IN  IF backend \in DOMAIN o.externalBackends
           THEN IF IsExternalFile(o.externalBackends[backend])
                THEN StartProcess(c, o.externalBackends[backend], TRUE)
                ELSE /\ ld' = [ld EXCEPT ![c].client =
                           [process |-> 0, address |-> o.externalBackends[backend]]]
                     /\ pc' = [pc EXCEPT ![c] = "gm_health"]
                     /\ UNCHANGED <<processes, tr, loading>>
           ELSE IF PathRejected(backend)
                THEN /\ LoaderFails(c, "refering to a backend not in asset dir")
                     /\ UNCHANGED <<processes, tr>>
                ELSE IF ~StatBackend(ResolveProcess(backend, o.f16))
                     THEN /\ LoaderFails(c, "backend not found")
                          /\ UNCHANGED <<processes, tr>>
                     ELSE StartProcess(c, ResolveProcess(backend, o.f16),
                                       ~IsDirectory(ResolveProcess(backend, o.f16)))
    /\ env' = [v \in EnvNames |-> DefaultEnv(env[v])]
    /\ UNCHANGED <<hostVars, bgVars, listed, selected, active, models, req, bl, gl, res>>

\* the process behind a client answers: it is alive, or the client is bound to
\* an external address
CanAnswer(client) == IF client.process = 0 THEN TRUE ELSE processes[client.process].alive

\* for i := 0; i < o.grpcAttempts; i++
LoopContinuesOnceMore(i, grpcAttempts) == i <= grpcAttempts
LoopContinues(i, grpcAttempts) == i < grpcAttempts

\* one turn of the readiness loop: HealthCheck, then the sleep when not alive
HealthCheck(c) ==
    /\ pc[c] = "gm_health"
    /\ LoopContinues(ld[c].i, bl[c].grpcAttempts)
    /\ \E alive \in BOOLEAN :
         /\ alive => CanAnswer(ld[c].client)
         /\ IF alive
            THEN /\ ld' = [ld EXCEPT ![c].checks = @ + 1]
                 /\ pc' = [pc EXCEPT ![c] = "gm_load"]
            ELSE /\ ld' = [ld EXCEPT ![c].checks = @ + 1, ![c].sleeps = @ + 1, ![c].i = @ + 1]
                 /\ UNCHANGED pc
    /\ UNCHANGED <<hostVars, bgVars, env, listed, selected, active, models, processes, loading, req, bl, gl, res, tr>>

NotReadyError == "grpc service not ready"

\* the loop ended with ready false
NotReadyNoDelete(c) ==
    /\ pc[c] = "gm_health"
    /\ ~LoopContinues(ld[c].i, bl[c].grpcAttempts)
    /\ LoaderFails(c, NotReadyError)
    /\ UNCHANGED <<hostVars, bgVars, env, listed, selected, active, models, processes, tr, req, bl, gl, res>>
NotReady(c) ==
    /\ pc[c] = "gm_health"
    /\ ~LoopContinues(ld[c].i, bl[c].grpcAttempts)
    /\ deleteProcess(c, bl[c].model)
    /\ LoaderFails(c, NotReadyError)
    /\ UNCHANGED <<hostVars, bgVars, env, listed, selected, active, req, bl, gl, res>>

\* the replies of the LoadModel RPC: a transport error, or a result with its
\* Success field
RPCReplies ==
    {[err |-> TRUE, success |-> FALSE],
     [err |-> FALSE, success |-> FALSE],
     [err |-> FALSE, success |-> TRUE]}

\* the error grpcModel returns for a reply, "" when it returns the client
RPCFailureTransportOnly(reply) ==
    IF reply.err THEN "could not load model" ELSE ""
RPCFailure(reply) ==
    IF reply.err THEN "could not load model"
    ELSE IF ~reply.success THEN "could not load model (no success)"
    ELSE ""

\* the LoadModel RPC; on success the loader returns the client and LoadModel
\* registers it
LoadModelRPC(c) ==
    /\ pc[c] = "gm_load"
    /\ \E reply \in RPCReplies :
         /\ ~reply.err => CanAnswer(ld[c].client)
         /\ IF RPCFailure(reply) = ""
            THEN /\ models' = Register(LoadKey(bl[c]), ld[c].client)
                 /\ tr' = [tr EXCEPT ![c].changed = @ \cup {LoadKey(bl[c])}]
                 /\ loading' = loading \ {LoadKey(bl[c])}
                 /\ pc' = [pc EXCEPT ![c] = "bl_return"]
                 /\ ld' = [ld EXCEPT ![c].rpc = <<reply>>]
                 /\ UNCHANGED processes
            ELSE /\ deleteProcess(c, bl[c].model)
                 /\ ld' = [ld EXCEPT ![c].client = NoClient,
                                     ![c].err = RPCFailure(reply),
                                     ![c].rpc = <<reply>>]
                 /\ loading' = loading \ {LoadKey(bl[c])}
                 /\ pc' = [pc EXCEPT ![c] = "bl_return"]
    /\ UNCHANGED <<hostVars, bgVars, env, listed, selected, active, req, bl, gl, res>>

\* GreedyLoader's test of what BackendLoader returned: err == nil && model != nil
UsableNever(client, err) == FALSE
Usable(client, err) == err = "" /\ client # NoClient

\* BackendLoader returns (model.GRPC, nil) or (nil, err) to its caller
BackendLoaderReturn(c) ==
    /\ pc[c] = "bl_return"
    /\ IF bl[c].ret = "top"
       THEN /\ res' = [res EXCEPT ![c] =
                  [client |-> ld[c].client,
                   err |-> IF ld[c].err = "" THEN <<>> ELSE <<ld[c].err>>]]
            /\ pc' = [pc EXCEPT ![c] = "done"]
            /\ bl' = [bl EXCEPT ![c] = NoBackendCall]
            /\ ld' = [ld EXCEPT ![c] = NoLoad]
            /\ UNCHANGED tr
       ELSE /\ pc' = [pc EXCEPT ![c] = IF bl[c].ret = "gl" THEN "gl_result" ELSE "gl_retry"]
            /\ tr' = [tr EXCEPT ![c].succeeded =
                        IF ld[c].err = "" /\ ld[c].client # NoClient
                        THEN @ \cup {<<Len(tr[c].attempted), ld[c].client>>} ELSE @,
                                ![c].failures =
                        IF ld[c].err = "" /\ ld[c].client # NoClient
                        THEN <<>>
                        ELSE Append(@, [key |-> gl[c].autoLoadBackends[gl[c].idx],
                                        err |-> ld[c].err])]
            /\ UNCHANGED <<res, bl, ld>>
    /\ UNCHANGED <<hostVars, bgVars, env, listed, selected, active, models, processes, loading, req, gl>>

(***************************************************************************)
(* GreedyLoader.                                                           *)
(***************************************************************************)
\* "Return earlier if we have a model already loaded"
GreedyCheckAfterEvict(c) ==
    /\ pc[c] = "gl_check"
    /\ models' = Unregister(EvictionSet(req[c]))
    /\ processes' = StopProcesses(EvictionSet(req[c]))
    /\ IF CheckIsLoaded(req[c].model) # NoClient
       THEN /\ res' = [res EXCEPT ![c] = [client |-> CheckIsLoaded(req[c].model), err |-> <<>>]]
            /\ tr' = [tr EXCEPT ![c].hit = "checkIsLoaded",
                                ![c].evicted = @ \/ req[c].singleActiveBackend,
                                ![c].changed = @ \cup EvictionSet(req[c])]
            /\ pc' = [pc EXCEPT ![c] = "done"]
       ELSE /\ tr' = [tr EXCEPT ![c].evicted = @ \/ req[c].singleActiveBackend,
                                ![c].changed = @ \cup EvictionSet(req[c])]
            /\ pc' = [pc EXCEPT ![c] = "gl_evict"]
            /\ UNCHANGED res
    /\ UNCHANGED <<hostVars, bgVars, env, listed, selected, active, loading, req, bl, gl, ld>>
GreedyCheckIsLoaded(c) ==
    /\ pc[c] = "gl_check"
    /\ IF CheckIsLoaded(req[c].model) # NoClient
       THEN /\ res' = [res EXCEPT ![c] = [client |-> CheckIsLoaded(req[c].model), err |-> <<>>]]
            /\ tr' = [tr EXCEPT ![c].hit = "checkIsLoaded"]
            /\ pc' = [pc EXCEPT ![c] = "done"]
       ELSE /\ pc' = [pc EXCEPT ![c] = "gl_evict"]
            /\ UNCHANGED <<res, tr>>
    /\ UNCHANGED <<hostVars, bgVars, env, listed, selected, active, models, processes, loading, req, bl, gl, ld>>

\* StopGRPC(allExcept(o.model)) when the request asks for a single active backend
GreedyEvict(c) ==
    /\ pc[c] = "gl_evict"
    /\ LET stop == EvictionSet(req[c])
       IN  \E failed \in StopFailures(stop) :
             /\ models' = Unregister(stop \ failed)
             /\ processes' = StopProcesses(stop \ failed)
             /\ tr' = [tr EXCEPT ![c].evicted = @ \/ req[c].singleActiveBackend,
                                 ![c].changed = @ \cup (stop \ failed),
                                 ![c].stopFailed = @ \cup failed]
             /\ IF EvictionAborts(StopError(failed))
                THEN /\ res' = [res EXCEPT ![c] =
                                   [client |-> NoClient, err |-> <<StopError(failed)>>]]
                     /\ pc' = [pc EXCEPT ![c] = "done"]
                ELSE /\ pc' = [pc EXCEPT ![c] = "gl_discover"]
                     /\ UNCHANGED res
    /\ UNCHANGED <<hostVars, bgVars, env, listed, selected, active, loading, req, bl, gl, ld>>

\* the values of the external-backend table, in the order the range visits them
RECURSIVE ExternalValues(_, _, _)
ExternalValues(ext, order, i) ==
    IF i > Len(order) THEN <<>>
    ELSE <<ext[order[i]]>> \o ExternalValues(ext, order, i + 1)

\* backendsInAssetDir, then the external backends appended
GreedyDiscover(c) ==
    /\ pc[c] = "gl_discover"
    /\ \E order \in MapOrders(BackendKeys(entry, autoDetect)),
          eorder \in Orders(DOMAIN req[c].externalBackends) :
         LET found == backendsInAssetDir(entry, assetDirOk, autoDetect, order)
         IN  IF found.err
             THEN /\ res' = [res EXCEPT ![c] = [client |-> NoClient, err |-> <<"open: no such directory">>]]
                  /\ pc' = [pc EXCEPT ![c] = "done"]
                  /\ UNCHANGED gl
             ELSE /\ gl' = [gl EXCEPT ![c] =
                        [autoLoadBackends |->
                             found.list \o ExternalValues(req[c].externalBackends, eorder, 1),
                         idx |-> 1, err |-> <<>>]]
                  /\ pc' = [pc EXCEPT ![c] = "gl_loop"]
                  /\ UNCHANGED res
    /\ tr' = [tr EXCEPT ![c].discovered = TRUE]
    /\ UNCHANGED <<hostVars, bgVars, env, listed, selected, active, models, processes, loading, req, bl, ld>>

\* the options GreedyLoader gives the BackendLoader call for one backend: the
\* backend, the model, the gRPC options, the threads, the asset directory and the
\* external backends; NewOptions sets the others
GreedyCall(o, backendString, ret) ==
    [backendString |-> backendString, backend |-> "", model |-> o.model,
     singleActiveBackend |-> DefaultSingleActiveBackend, grpcAttempts |-> DefaultAttempts,
     f16 |-> o.f16, externalBackends |-> o.externalBackends, ret |-> ret]

\* the head of the loop over autoLoadBackends: the next key is tried
GreedyAttempt(c) ==
    /\ pc[c] = "gl_loop"
    /\ gl[c].idx <= Len(gl[c].autoLoadBackends)
    /\ bl' = [bl EXCEPT ![c] = GreedyCall(req[c], gl[c].autoLoadBackends[gl[c].idx], "gl")]
    /\ tr' = [tr EXCEPT ![c].attempted = Append(@, gl[c].autoLoadBackends[gl[c].idx])]
    /\ pc' = [pc EXCEPT ![c] = "bl_begin"]
    /\ UNCHANGED <<hostVars, bgVars, env, listed, selected, active, models, processes, loading, req, gl, ld, res>>

\* the loop is over: fmt.Errorf(..., err.Error()), which dereferences a nil err
\* when no attempt failed
GreedyExhausted(c) ==
    /\ pc[c] = "gl_loop"
    /\ gl[c].idx > Len(gl[c].autoLoadBackends)
    /\ IF gl[c].err = <<>>
       THEN /\ pc' = [pc EXCEPT ![c] = "panic"]
            /\ UNCHANGED res
       ELSE /\ res' = [res EXCEPT ![c] = [client |-> NoClient, err |-> gl[c].err]]
            /\ pc' = [pc EXCEPT ![c] = "done"]
    /\ bl' = [bl EXCEPT ![c] = NoBackendCall]
    /\ ld' = [ld EXCEPT ![c] = NoLoad]
    /\ UNCHANGED <<hostVars, bgVars, env, listed, selected, active, models, processes, loading, req, gl, tr>>

\* errors.Join(err, e): the errors joined so far and one more
JoinOverwrite(err, e) == <<e>>
Join(err, e) == Append(err, e)

\* the error GreedyLoader joins for a failed attempt
AttemptError(key, client, modelerr) ==
    IF modelerr # "" THEN "[" \o key \o "]: " \o modelerr
    ELSE "backend " \o key \o " returned no usable model"

\* "try as hard as possible to run the llama.cpp variants": the backend of the
\* extra attempt, or the continue
FallbackChoice ==
    IF AVX2 \in cpuCaps
    THEN [skip |-> FALSE,
          backendToUse |-> IF StatBackend(LLamaCPPAVX2) THEN LLamaCPPAVX2 ELSE ""]
    ELSE IF AVX \in cpuCaps
    THEN [skip |-> FALSE,
          backendToUse |-> IF StatBackend(LLamaCPPAVX2) THEN LLamaCPPAVX ELSE ""]
    ELSE IF StatBackend(LLamaCPPFallback)
    THEN [skip |-> FALSE, backendToUse |-> LLamaCPPFallback]
    ELSE [skip |-> TRUE, backendToUse |-> ""]

\* BackendLoader returned for the key of the loop
GreedyResult(c) ==
    /\ pc[c] = "gl_result"
    /\ LET key == gl[c].autoLoadBackends[gl[c].idx]
           err == Join(gl[c].err, AttemptError(key, ld[c].client, ld[c].err))
       IN  IF Usable(ld[c].client, ld[c].err)
           THEN /\ res' = [res EXCEPT ![c] = [client |-> ld[c].client, err |-> <<>>]]
                /\ pc' = [pc EXCEPT ![c] = "done"]
                /\ bl' = [bl EXCEPT ![c] = NoBackendCall]
                /\ gl' = [gl EXCEPT ![c] = NoGreedy]
                /\ ld' = [ld EXCEPT ![c] = NoLoad]
                /\ UNCHANGED tr
           ELSE IF autoDetect /\ key = LLamaCPP /\ err # <<>> /\ ~FallbackChoice.skip
                THEN /\ gl' = [gl EXCEPT ![c].err = err]
                     /\ bl' = [bl EXCEPT ![c] =
                                  GreedyCall(req[c], FallbackChoice.backendToUse, "glretry")]
                     /\ tr' = [tr EXCEPT ![c].retried = Append(@, FallbackChoice.backendToUse)]
                     /\ pc' = [pc EXCEPT ![c] = "bl_begin"]
                     /\ UNCHANGED <<res, ld>>
                ELSE /\ gl' = [gl EXCEPT ![c].err = err, ![c].idx = @ + 1]
                     /\ pc' = [pc EXCEPT ![c] = "gl_loop"]
                     /\ UNCHANGED <<res, bl, ld, tr>>
    /\ UNCHANGED <<hostVars, bgVars, env, listed, selected, active, models, processes, loading, req>>

\* BackendLoader returned for the extra attempt
GreedyFallbackResult(c) ==
    /\ pc[c] = "gl_retry"
    /\ LET key == gl[c].autoLoadBackends[gl[c].idx]
       IN  IF Usable(ld[c].client, ld[c].err)
           THEN /\ res' = [res EXCEPT ![c] = [client |-> ld[c].client, err |-> <<>>]]
                /\ pc' = [pc EXCEPT ![c] = "done"]
                /\ bl' = [bl EXCEPT ![c] = NoBackendCall]
                /\ gl' = [gl EXCEPT ![c] = NoGreedy]
                /\ ld' = [ld EXCEPT ![c] = NoLoad]
           ELSE /\ gl' = [gl EXCEPT ![c].err = Join(@, "[" \o key \o "]: " \o ld[c].err),
                                    ![c].idx = @ + 1]
                /\ pc' = [pc EXCEPT ![c] = "gl_loop"]
                /\ UNCHANGED <<res, bl, ld>>
    /\ UNCHANGED <<hostVars, bgVars, env, listed, selected, active, models, processes, loading, req, tr>>

(***************************************************************************)
(* The loader under concurrent requests.                                   *)
(***************************************************************************)
LoadHost(ents, ok, ad, caps) ==
    /\ entry = ents
    /\ assetDirOk = ok
    /\ autoDetect = ad
    /\ gpus = [ok |-> TRUE, list |-> <<>>]
    /\ cpuCaps = caps
    /\ grpcServers = ""

\* the hosts of the concurrent requests
ConcurrentHosts ==
    \/ LoadHost(<<>>, TRUE, TRUE, {})
    \/ LoadHost(<<File(WhisperBackend)>>, TRUE, FALSE, {})
    \/ LoadHost(<<File(LLamaCPPAVX2)>>, TRUE, TRUE, {AVX2, AVX})

Init ==
    /\ ConcurrentHosts
    /\ listed = <<>>
    /\ selected = <<>>
    /\ LoadIdle
    /\ BackgroundOff

Next ==
    \E c \in Callers :
        \/ Request(c)
        \/ BackendLoaderBegin(c)
        \/ LoadModelEnter(c)
        \/ GrpcModelStart(c)
        \/ HealthCheck(c)
        \/ NotReady(c)
        \/ LoadModelRPC(c)
        \/ BackendLoaderReturn(c)
        \/ GreedyCheckIsLoaded(c)
        \/ GreedyEvict(c)
        \/ GreedyDiscover(c)
        \/ GreedyAttempt(c)
        \/ GreedyExhausted(c)
        \/ GreedyResult(c)
        \/ GreedyFallbackResult(c)

Spec == Init /\ [][Next]_vars

(***************************************************************************)
(* The loader under the request of one caller, on more hosts and with more *)
(* options.                                                                *)
(***************************************************************************)
SingleDirectories ==
    {<<>>,
     <<File(WhisperBackend)>>,
     <<File(LLamaCPP), File(WhisperBackend)>>,
     <<File(LLamaCPPAVX2), File(WhisperBackend)>>,
     <<File(LLamaCPPAVX), File(WhisperBackend)>>,
     <<File(LLamaCPPAVX), File(LLamaCPPAVX2), File(LLamaCPPFallback)>>,
     <<File(LLamaCPPFallback), Dir("rwkv")>>}

SingleHosts ==
    \/ \E ents \in SingleDirectories, ad \in BOOLEAN, caps \in {{}, {AVX}, {AVX2, AVX}} :
          LoadHost(ents, TRUE, ad, caps)
    \/ LoadHost(<<>>, FALSE, TRUE, {})

InitSingle ==
    /\ SingleHosts
    /\ listed = <<>>
    /\ selected = <<>>
    /\ active = {"c1"}
    /\ models = [m \in {} |-> NoClient]
    /\ processes = <<>>
    /\ loading = {}
    /\ pc = [c \in Callers |-> "idle"]
    /\ req = [c \in Callers |-> NoRequest]
    /\ bl = [c \in Callers |-> NoBackendCall]
    /\ gl = [c \in Callers |-> NoGreedy]
    /\ ld = [c \in Callers |-> NoLoad]
    /\ res = [c \in Callers |-> NoResult]
    /\ tr = [c \in Callers |-> NoTrace]
    /\ BackgroundOff

SpecSingle == InitSingle /\ [][Next]_vars

(***************************************************************************)
(* What the requests returned.                                             *)
(***************************************************************************)
\* the request of c returned (client, nil)
Succeeded(c) == pc[c] = "done" /\ res[c].client # NoClient /\ res[c].err = <<>>
\* the request of c returned (nil, err)
Failed(c) == pc[c] = "done" /\ res[c].client = NoClient /\ res[c].err # <<>>
\* the step in which the request of c returns a client
ReturnsClient(c) == pc[c] # "done" /\ pc'[c] = "done" /\ res'[c].client # NoClient
\* every request made asks for a single active backend
AllSingleActive == \A d \in Callers : req[d] # NoRequest => req[d].singleActiveBackend
\* the live processes started for the model m
LiveProcesses(m) == {p \in DOMAIN processes : processes[p].alive /\ processes[p].id = m}

\* C1: when every request asks for a single active backend, at the return of
\* a successful load for a model M the registry holds no handle of another
\* model, whatever the interleaving of the requests
C1_SingleActiveAtReturn ==
    [][\A c \in Callers :
          (AllSingleActive /\ ReturnsClient(c)) => DOMAIN models' \subseteq {req[c].model}]_vars

C3_GreedyReturnsOne ==
    \A c \in Callers :
        req[c].kind = "greedy" =>
            /\ pc[c] # "panic"
            /\ pc[c] = "done" => (Succeeded(c) \/ Failed(c))

\* C4: the keys GreedyLoader tried are a prefix of its candidate list, in the
\* order of the list; no attempt is made after one that returned a usable
\* client, and that client is what GreedyLoader returns
C4_InOrderFirstSuccess ==
    \A c \in Callers :
        req[c].kind = "greedy" =>
            /\ gl[c] # NoGreedy =>
                 /\ Len(tr[c].attempted) <= Len(gl[c].autoLoadBackends)
                 /\ tr[c].attempted =
                        SubSeq(gl[c].autoLoadBackends, 1, Len(tr[c].attempted))
                 /\ Len(gl[c].err) >= Len(tr[c].attempted) - 1
            /\ \A s \in tr[c].succeeded : s[1] = Len(tr[c].attempted)
            /\ Cardinality(tr[c].succeeded) <= 1
            /\ (pc[c] = "done" /\ tr[c].attempted # <<>>) =>
                 IF tr[c].succeeded = {} THEN Failed(c)
                 ELSE Succeeded(c) /\ tr[c].succeeded = {<<Len(tr[c].attempted), res[c].client>>}

\* the first candidate failed and the second one gave the client returned
C4_Witness ==
    \E c \in Callers :
        /\ req[c].kind = "greedy"
        /\ Succeeded(c)
        /\ Len(tr[c].attempted) >= 2
        /\ tr[c].succeeded # {}

NotFoundError == "backend not found"
\* the BackendLoader call of c returned because the executable does not exist
NotFound(c) ==
    req[c].kind = "backend" /\ pc[c] = "done" /\ res[c].err = <<NotFoundError>>

C6_NotReadyCleansUp ==
    \A c \in Callers :
        (pc[c] = "bl_return" /\ ld[c].err = NotReadyError) =>
            /\ ld[c].client = NoClient
            /\ \A p \in tr[c].spawned : ~processes[p].alive
            /\ \A m \in DOMAIN models : models[m].process \notin tr[c].spawned

\* a loader that started a process gave up waiting for it
C6_Witness ==
    \E c \in Callers :
        /\ pc[c] = "bl_return" /\ ld[c].err = NotReadyError
        /\ tr[c].spawned # {}
        /\ ld[c].checks >= 1

\* C7: the readiness loop makes at most grpcAttempts health checks, goes on
\* to the LoadModel RPC at the first alive answer, and gives up only after
\* grpcAttempts health checks and grpcAttempts sleeps
C7_ReadinessBudget ==
    \A c \in Callers :
        /\ ld[c].checks <= bl[c].grpcAttempts
        /\ ld[c].sleeps <= bl[c].grpcAttempts
        /\ pc[c] = "gm_health" => ld[c].checks = ld[c].i /\ ld[c].sleeps = ld[c].i
        /\ pc[c] = "gm_load" => ld[c].checks = ld[c].sleeps + 1
        /\ (pc[c] = "bl_return" /\ ld[c].err = NotReadyError) =>
              ld[c].checks = bl[c].grpcAttempts /\ ld[c].sleeps = bl[c].grpcAttempts

\* a loop with a budget of two or more gave up
C7_Witness ==
    \E c \in Callers :
        /\ pc[c] = "bl_return" /\ ld[c].err = NotReadyError
        /\ bl[c].grpcAttempts >= 2
        /\ ld[c].sleeps = bl[c].grpcAttempts

\* C10: a GreedyLoader call that finds the model registered returns the
\* registered handle having evicted, discovered, started and changed nothing;
\* a BackendLoader call that finds the model registered starts no process
C10_LoadedShortCircuits ==
    \A c \in Callers :
        /\ tr[c].hit = "checkIsLoaded" =>
              /\ Succeeded(c)
              /\ ~tr[c].evicted /\ ~tr[c].discovered
              /\ tr[c].attempted = <<>>
              /\ tr[c].spawned = {} /\ tr[c].changed = {}
        /\ (req[c].kind = "backend" /\ tr[c].hit = "loadModel") =>
              /\ tr[c].spawned = {}
              /\ req[c].model \notin tr[c].changed
              /\ pc[c] = "done" => Succeeded(c)

\* a GreedyLoader call with the flag on found its model registered
C10_Witness ==
    \E c \in Callers :
        /\ req[c].kind = "greedy" /\ tr[c].hit = "checkIsLoaded"
        /\ req[c].singleActiveBackend
        /\ Succeeded(c)

\* C11: after the LoadModel RPC the loader returns a client only when the
\* reply has no transport error and Success true, and that client is then
\* registered; on a transport error or Success false it returns an error
\* without a client, the model has no handle and its process is stopped
C11_RPCDecidesHandle ==
    \A c \in Callers :
        (pc[c] = "bl_return" /\ ld[c].rpc # <<>>) =>
            IF ld[c].rpc[1].err \/ ~ld[c].rpc[1].success
            THEN /\ ld[c].client = NoClient
                 /\ ld[c].err # ""
                 /\ bl[c].model \notin DOMAIN models
                 /\ \A p \in tr[c].spawned : ~processes[p].alive
            ELSE /\ ld[c].client # NoClient
                 /\ ld[c].err = ""
                 /\ bl[c].model \in DOMAIN models
                 /\ models[bl[c].model] = ld[c].client

\* a started process answered the RPC with Success false
C11_Witness ==
    \E c \in Callers :
        /\ pc[c] = "bl_return"
        /\ ld[c].rpc = <<[err |-> FALSE, success |-> FALSE]>>
        /\ tr[c].spawned # {}

\* the entry of the aggregated error for a failed BackendLoader call
ErrorEntry(f) == "[" \o f.key \o "]: " \o f.err
\* the calls so far that failed are the errors joined so far, in order
JoinedAll(failures, err) ==
    /\ Len(err) = Len(failures)
    /\ \A k \in 1..Len(failures) : err[k] = ErrorEntry(failures[k])

\* C14: the errors GreedyLoader has joined are, in order, one entry naming the
\* key and the failure of every BackendLoader call that failed (once the
\* result of a call was looked at); when every candidate failed the error
\* returned holds them all, every candidate of the list was tried and every
\* call made, retries included, has its entry
C14_AggregatedError ==
    \A c \in Callers :
        (req[c].kind = "greedy" /\ gl[c] # NoGreedy) =>
            /\ pc[c] \in {"gl_loop", "bl_begin", "lm_enter", "gm_start", "gm_health",
                          "gm_load", "bl_return"} =>
                  JoinedAll(tr[c].failures, gl[c].err)
            /\ Failed(c) =>
                  /\ JoinedAll(tr[c].failures, res[c].err)
                  /\ tr[c].attempted = gl[c].autoLoadBackends
                  /\ Len(res[c].err) = Len(tr[c].attempted) + Len(tr[c].retried)

\* three calls failed, the retry among them, and the error holds three entries
C14_Witness ==
    \E c \in Callers :
        /\ req[c].kind = "greedy" /\ Failed(c)
        /\ Len(tr[c].retried) = 1
        /\ Len(res[c].err) = 3

(***************************************************************************)
(* The names of a candidate list against the files of the directory        *)
(***************************************************************************)
\* the regular, non-log files of the directory other than the excluded ones
Installed(ents) ==
    {ents[i].name : i \in {j \in DOMAIN ents :
        /\ ~ents[j].isDir
        /\ ~HasSuffix(ents[j].name, ".log")
        /\ ents[j].name \notin SeqToSet(excludeBackends)}}

InFamily(n) == Contains(n, LLamaCPP)

Canonical(n) == IF InFamily(n) THEN LLamaCPP ELSE n

VariantNamed(ents) ==
    \E i \in DOMAIN ents : \E k \in DOMAIN VariantChecks :
        Contains(ents[i].name, VariantChecks[k])

FirstMatchOfGPU(ents, g, f16) ==
    IF Contains(g, "nvidia") /\ Stat(ents, LLamaCPPCUDA) THEN LLamaCPPCUDA
    ELSE IF Contains(g, "amd") /\ Stat(ents, LLamaCPPHipblas) THEN LLamaCPPHipblas
    ELSE IF Contains(g, "intel") /\ Stat(ents, SyclVariant(f16)) THEN SyclVariant(f16)
    ELSE ""

RECURSIVE FirstGPUMatch(_, _, _, _)
FirstGPUMatch(ents, gs, f16, i) ==
    IF i > Len(gs) THEN ""
    ELSE IF FirstMatchOfGPU(ents, gs[i], f16) # "" THEN FirstMatchOfGPU(ents, gs[i], f16)
    ELSE FirstGPUMatch(ents, gs, f16, i + 1)

\* C16: with no remote-RPC override, when some GPU match resolves to an
\* installed file, selectGRPCProcess for llama-cpp returns the variant of the
\* first such match in GPU enumeration order (nvidia, amd, intel within one
\* GPU); later GPUs and later vendor tests do not change the result.
C16_FirstGPUMatchWins ==
    \A k \in DOMAIN selected :
        (/\ selected[k].backend = LLamaCPP
         /\ grpcServers = ""
         /\ gpus.ok
         /\ FirstGPUMatch(entry, gpus.list, selected[k].f16, 1) # "")
            => selected[k].proc = FirstGPUMatch(entry, gpus.list, selected[k].f16, 1)

\* the CPU step as the claim orders it: each variant is tried when the CPU has
\* the feature and the file is installed, the fallback last
CPUChain(ents, caps) ==
    IF AVX2 \in caps /\ Stat(ents, LLamaCPPAVX2) THEN LLamaCPPAVX2
    ELSE IF AVX \in caps /\ Stat(ents, LLamaCPPAVX) THEN LLamaCPPAVX
    ELSE IF Stat(ents, LLamaCPPFallback) THEN LLamaCPPFallback
    ELSE ""

NoGPUSelected(f16) == ~gpus.ok \/ FirstGPUMatch(entry, gpus.list, f16, 1) = ""

\* C17: with no remote-RPC override and no GPU variant selected,
\* selectGRPCProcess for llama-cpp returns the AVX2 variant if the CPU has AVX2
\* and the file is installed, else the AVX variant if the CPU has AVX and the
\* file is installed, else the fallback variant if installed, else nothing.
C17_CPUChainFallsThrough ==
    \A k \in DOMAIN selected :
        (/\ selected[k].backend = LLamaCPP
         /\ grpcServers = ""
         /\ NoGPUSelected(selected[k].f16))
            => selected[k].proc = CPUChain(entry, cpuCaps)

(***************************************************************************)
(* The extra attempt of GreedyLoader                                       *)
(***************************************************************************)
\* the first of the AVX2, AVX and fallback variant files that exists on disk
FirstPresentVariant ==
    IF StatBackend(LLamaCPPAVX2) THEN LLamaCPPAVX2
    ELSE IF StatBackend(LLamaCPPAVX) THEN LLamaCPPAVX
    ELSE IF StatBackend(LLamaCPPFallback) THEN LLamaCPPFallback
    ELSE ""

\* BackendLoader has returned a failure for the llama-cpp key of the loop
LlamaCandidateFailed(c) ==
    /\ pc[c] = "gl_result"
    /\ gl[c].autoLoadBackends[gl[c].idx] = LLamaCPP
    /\ ~(ld[c].err = "" /\ ld[c].client # NoClient)

\* C18: in a GreedyLoader call, the step that follows a failure of the
\* llama-cpp candidate under auto-detection starts one extra attempt exactly
\* when one of the AVX2, AVX, fallback variant files exists, targeting the
\* first of the three that exists; no other step of the call starts an extra
\* attempt.
C18_RetryIffVariantPresent ==
    [][\A c \in Callers :
          (pc[c] \notin {"idle", "done"} /\ pc'[c] # pc[c]) =>
              tr'[c].retried =
                  IF LlamaCandidateFailed(c) /\ autoDetect /\ FirstPresentVariant # ""
                  THEN Append(tr[c].retried, FirstPresentVariant)
                  ELSE tr[c].retried]_vars

(***************************************************************************)
(* The external backends among the candidates of GreedyLoader              *)
(***************************************************************************)
\* the candidates GreedyLoader appended after the locally discovered ones
AppendedCandidates(c) ==
    LET l == gl[c].autoLoadBackends
        n == Cardinality(DOMAIN req[c].externalBackends)
    IN  SubSeq(l, Len(l) - n + 1, Len(l))

\* C19: the candidates GreedyLoader appends after the locally discovered
\* backends are the names registered in the caller's external-backend table,
\* so that each attempt for one of them finds its path or address in the table.
C19_ExternalByName ==
    \A c \in Callers :
        (req[c].kind = "greedy" /\ pc[c] = "gl_loop") =>
            /\ SeqToSet(AppendedCandidates(c)) = DOMAIN req[c].externalBackends
            /\ \A i \in DOMAIN gl[c].autoLoadBackends :
                  i > Len(gl[c].autoLoadBackends) - Cardinality(DOMAIN req[c].externalBackends)
                      => gl[c].autoLoadBackends[i] \in DOMAIN req[c].externalBackends

(***************************************************************************)
(* The error of the single-active-backend eviction                         *)
(***************************************************************************)
\* the step of c is an eviction with a stop that fails
EvictionFails(c) ==
    /\ pc[c] \in {"bl_begin", "gl_evict"}
    /\ tr[c].stopFailed = {}
    /\ tr'[c].stopFailed # {}

\* C20: when the eviction of BackendLoader or GreedyLoader could not stop some
\* backend, the call goes on to its load (LoadModel, or the discovery and the
\* loop of GreedyLoader) at that step, and the eviction error is never in the
\* error the call returns.
C20_EvictionErrorOnlyLogged ==
    [][\A c \in Callers :
          /\ EvictionFails(c) =>
                /\ pc'[c] = (IF pc[c] = "bl_begin" THEN "lm_enter" ELSE "gl_discover")
                /\ res'[c] = res[c]
          /\ tr'[c].stopFailed # {} =>
                StopError(tr'[c].stopFailed) \notin SeqToSet(res'[c].err)]_vars

\* a call whose eviction failed to stop the other model went on and returned
\* a client, the other model still being registered
C20_Witness ==
    \E c \in Callers :
        /\ pc[c] = "done"
        /\ tr[c].stopFailed # {}
        /\ Succeeded(c)
        /\ tr[c].stopFailed \subseteq DOMAIN models

(***************************************************************************)
(* The context is cancelled: StopAllGRPC and the shutdown of the watchdog  *)
(***************************************************************************)
\* options.Context is cancelled
Cancel ==
    /\ ctx = "live"
    /\ ctx' = "cancelled"
    /\ UNCHANGED <<hostVars, env, boot, listed, selected, loadVars, options, stopAll, wd>>

\* the names StopAllGRPC is to stop: every registered handle and every process
\* that runs
AllNames == DOMAIN models \cup {processes[p].id : p \in {q \in DOMAIN processes : processes[q].alive}}

\* "turn off any process that was started by GRPC if the context is canceled":
\* the goroutine calls StopAllGRPC once and logs its error
StopAllGRPC ==
    /\ ctx = "cancelled"
    /\ stopAll = "waiting"
    /\ \E failed \in StopFailures(AllNames) :
         /\ models' = Unregister(AllNames \ failed)
         /\ processes' = StopProcesses(AllNames \ failed)
         /\ stopAll' = IF failed = {} THEN "done" ELSE "failed"
    /\ UNCHANGED <<hostVars, env, boot, listed, selected, active, loading, pc, req, bl, gl, ld, res, tr,
                   options, ctx, wd>>

\* the goroutine that waits for the context calls wd.Shutdown()
WatchDogShutdown ==
    /\ ctx = "cancelled"
    /\ wd.status = "running"
    /\ wd' = [wd EXCEPT !.status = "shutdown"]
    /\ UNCHANGED <<hostVars, env, boot, listed, selected, loadVars, options, ctx, stopAll>>

\* the server started on a host of ConcurrentHosts, one caller making requests
InitShutdown ==
    /\ ConcurrentHosts
    /\ listed = <<>>
    /\ selected = <<>>
    /\ active = {"c1"}
    /\ models = [m \in {} |-> NoClient]
    /\ processes = <<>>
    /\ loading = {}
    /\ pc = [c \in Callers |-> "idle"]
    /\ req = [c \in Callers |-> NoRequest]
    /\ bl = [c \in Callers |-> NoBackendCall]
    /\ gl = [c \in Callers |-> NoGreedy]
    /\ ld = [c \in Callers |-> NoLoad]
    /\ res = [c \in Callers |-> NoResult]
    /\ tr = [c \in Callers |-> NoTrace]
    /\ \E o \in StartupOptions : Startup(o)

NextShutdown ==
    \/ Next
    \/ Cancel
    \/ StopAllGRPC
    \/ WatchDogShutdown

SpecShutdown == InitShutdown /\ [][NextShutdown]_vars

\* the shutdown is over: the context is cancelled, StopAllGRPC has returned
\* without error, the watchdog, if there is one, is shut down, and no request
\* is running
ShutdownOver ==
    /\ ctx = "cancelled"
    /\ stopAll = "done"
    /\ wd.status # "running"
    /\ \A c \in Callers : pc[c] = "idle" \/ Ended(c)

\* C13: once the context is cancelled, StopAllGRPC has run and the watchdog is
\* shut down, and every load that was in flight at the cancellation has
\* returned, no backend process is running and no handle is registered.
C13_ShutdownStopsEverything ==
    ShutdownOver =>
        /\ DOMAIN models = {}
        /\ \A p \in DOMAIN processes : ~processes[p].alive

(***************************************************************************)
(* The watchdog: time is counted in scan intervals                         *)
(***************************************************************************)
\* an age the watchdog no longer tells from a larger one
MaxAge == MaxTimeout + 1

\* a handle the watchdog starts to track: idle, just active
Fresh == [busy |-> FALSE, age |-> 0]

\* an RPC is dispatched through the handle of m: busy, the timestamp reset
Dispatch(m) ==
    /\ m \in DOMAIN models
    /\ m \in DOMAIN wd.marks
    /\ ~wd.marks[m].busy
    /\ wd' = [wd EXCEPT !.marks[m] = [busy |-> TRUE, age |-> 0]]
    /\ UNCHANGED <<hostVars, env, boot, listed, selected, loadVars, options, ctx, stopAll>>

\* the RPC through the handle of m returns: idle, the timestamp reset
Return(m) ==
    /\ m \in DOMAIN wd.marks
    /\ wd.marks[m].busy
    /\ wd' = [wd EXCEPT !.marks[m] = [busy |-> FALSE, age |-> 0]]
    /\ UNCHANGED <<hostVars, env, boot, listed, selected, loadVars, options, ctx, stopAll>>

\* the scheduler sleeps one interval: every tracked handle grows older
WatchDogSleep ==
    /\ wd.status = "running"
    /\ wd.phase = "sleep"
    /\ wd' = [wd EXCEPT !.phase = "scan",
                        !.marks = [m \in DOMAIN wd.marks |->
                                      [wd.marks[m] EXCEPT !.age =
                                          IF @ < MaxAge THEN @ + 1 ELSE @]]]
    /\ UNCHANGED <<hostVars, env, boot, listed, selected, loadVars, options, ctx, stopAll>>

\* the handle of m stayed idle past the idle timeout or busy past the busy one
Expired(w, m) ==
    IF w.marks[m].busy THEN w.marks[m].age > w.busyTimeout
    ELSE w.marks[m].age > w.idleTimeout

\* the scheduler scans the tracked handles and stops every expired one: it is
\* removed from the registry and its process terminated; a stop that fails is
\* logged and the scan goes on
WatchDogScan ==
    /\ wd.status = "running"
    /\ wd.phase = "scan"
    /\ LET expired == {m \in DOMAIN wd.marks : Expired(wd, m)}
       IN  \E failed \in StopFailures(expired) :
             /\ models' = Unregister(expired \ failed)
             /\ processes' = StopProcesses(expired \ failed)
             /\ wd' = [wd EXCEPT !.phase = "sleep",
                                 !.marks = [m \in DOMAIN wd.marks \ (expired \ failed) |->
                                               wd.marks[m]],
                                 !.stopped = expired \ failed,
                                 !.failed = failed]
    /\ UNCHANGED <<hostVars, env, boot, listed, selected, active, loading, pc, req, bl, gl, ld, res, tr,
                   options, ctx, stopAll>>

\* a server with the watchdog on whose two models were loaded with the
\* whisper backend; no request is running
InitWatch ==
    /\ LoadHost(<<File(WhisperBackend)>>, TRUE, FALSE, {})
    /\ listed = <<>>
    /\ selected = <<>>
    /\ active = {}
    /\ models = [m \in Models |->
                    [process |-> IF m = "m1" THEN 1 ELSE 2, address |-> LocalAddress]]
    /\ processes = << [id |-> "m1", path |-> WhisperBackend, alive |-> TRUE],
                      [id |-> "m2", path |-> WhisperBackend, alive |-> TRUE] >>
    /\ loading = {}
    /\ pc = [c \in Callers |-> "idle"]
    /\ req = [c \in Callers |-> NoRequest]
    /\ bl = [c \in Callers |-> NoBackendCall]
    /\ gl = [c \in Callers |-> NoGreedy]
    /\ ld = [c \in Callers |-> NoLoad]
    /\ res = [c \in Callers |-> NoResult]
    /\ tr = [c \in Callers |-> NoTrace]
    /\ \E o \in {q \in StartupOptions : q.WatchDog} :
         /\ options = o
         /\ ctx = "live"
         /\ stopAll = "waiting"
         /\ wd = [NewWatchDog(o) EXCEPT !.marks = [m \in Models |-> Fresh]]
    /\ env = [v \in EnvNames |-> ModelPath]
    /\ boot = NoBoot

NextWatch ==
    \/ \E m \in Models : Dispatch(m)
    \/ \E m \in Models : Return(m)
    \/ WatchDogSleep
    \/ WatchDogScan
    \/ Cancel
    \/ StopAllGRPC
    \/ WatchDogShutdown

SpecWatch == InitWatch /\ [][NextWatch]_vars

\* by the timeouts of the options, the handle of m is over its time
OverTime(m) ==
    IF wd.marks[m].busy THEN wd.marks[m].age > options.WatchDogBusyTimeout
    ELSE wd.marks[m].age > options.WatchDogIdleTimeout

\* the step is a scan of the running watchdog
ScanStep == wd.status = "running" /\ wd.phase = "scan" /\ wd'.phase = "sleep"

OutsideAssetDir == "refering to a backend not in asset dir"

\* the loader of c is about to run for a local backend whose path leaves the
\* asset directory
TraversalLoad(c) ==
    /\ pc[c] = "gm_start"
    /\ bl[c].backend \notin DOMAIN bl[c].externalBackends
    /\ Contains(bl[c].backend, "..")

\* C21: the loader run for a backend that is not in the external-backend table
\* and whose path leaves the asset directory returns the hard error at once: it
\* hands back no client and no address, starts no process and records no
\* variant selection.
C21_TraversalIsHardError ==
    [][\A c \in Callers :
          (TraversalLoad(c) /\ pc'[c] # pc[c]) =>
              /\ pc'[c] = "bl_return"
              /\ ld'[c].err = OutsideAssetDir
              /\ ld'[c].client = NoClient
              /\ processes' = processes
              /\ tr'[c].spawned = tr[c].spawned
              /\ selected' = selected]_vars

\* a BackendLoader call for "../evil" returned the hard error with no process
\* started
C21_Witness ==
    \E c \in Callers :
        /\ req[c].backendString = "../evil"
        /\ Failed(c)
        /\ res[c].err = <<OutsideAssetDir>>
        /\ tr[c].spawned = {}
        /\ processes = <<>>

(***************************************************************************)
(* The loader run for an external backend                                  *)
(***************************************************************************)
\* the loader of c is about to run for a backend of the external-backend table
ExternalLoad(c) ==
    /\ pc[c] = "gm_start"
    /\ bl[c].backend \in DOMAIN bl[c].externalBackends

RegisteredValue(c) == bl[c].externalBackends[bl[c].backend]

\* the step started one process at path for the model of c, and the client of
\* c owns it on a local address
SpawnedFor(c, path) ==
    /\ Len(processes') = Len(processes) + 1
    /\ SubSeq(processes', 1, Len(processes)) = processes
    /\ processes'[Len(processes')] = [id |-> bl[c].model, path |-> path, alive |-> TRUE]
    /\ ld'[c].client = [process |-> Len(processes'), address |-> LocalAddress]

\* C22: the loader run for a backend registered in the external-backend table
\* starts a process at the registered path, on a local address, the client
\* owning the process, when the path exists as a file (or returns the error of
\* the port allocation or of the start); otherwise it starts nothing and the
\* client has the registered value as address and no process.  In both cases
\* the client goes on to the readiness loop, as a local backend's does.
C22_ExternalBackendHandle ==
    [][\A c \in Callers :
          (ExternalLoad(c) /\ pc'[c] # pc[c]) =>
              IF RegisteredValue(c) \in ExternalFiles
              THEN \/ SpawnedFor(c, RegisteredValue(c)) /\ pc'[c] = "gm_health"
                   \/ /\ processes' = processes
                      /\ pc'[c] = "bl_return"
                      /\ ld'[c].client = NoClient
                      /\ ld'[c].err \in {"failed allocating free ports",
                                         "failed to start the process"}
              ELSE /\ processes' = processes
                   /\ ld'[c].client = [process |-> 0, address |-> RegisteredValue(c)]
                   /\ pc'[c] = "gm_health"]_vars

\* a call for an external backend registered with a file returned a client
\* that owns the process started at that file
C22_Witness ==
    \E c \in Callers :
        /\ Succeeded(c)
        /\ req[c].backendString = "ext-tts"
        /\ res[c].client.process # 0
        /\ processes[res[c].client.process].path = "/opt/backends/ext-tts"
        /\ processes[res[c].client.process].alive
        /\ res[c].client.address = LocalAddress

(***************************************************************************)
(* Two calls on the same directory                                         *)
(***************************************************************************)
\* C23: two calls of backendsInAssetDir on the same unchanged backend
\* directory return the same candidate list in the same order.
C23_StableOrder ==
    Len(listed) = 2 => listed[1] = listed[2]

(***************************************************************************)
(* The member-variant list of the llama-cpp entry                          *)
(***************************************************************************)
\* the order of the variants the specification gives
DiscoveryOrder ==
    << LLamaCPPCUDA, LLamaCPPHipblas, LLamaCPPSycl16, LLamaCPPSycl32,
       LLamaCPPAVX2, LLamaCPPAVX, LLamaCPPFallback, LLamaCPPGRPC >>

\* C27: with auto-detection enabled, the member-variant list built for the
\* llama-cpp entry holds no variant twice, holds a variant only if a file of
\* that name is installed, and lists the variants in the order CUDA, HIP,
\* SYCL-16, SYCL-32, AVX2, AVX, fallback, remote-GRPC.
C27_VariantList ==
    \A k \in DOMAIN listed :
        (~listed[k].err /\ autoDetect) =>
            LET v == listed[k].variants
            IN  /\ NoDuplicates(v)
                /\ \A i \in DOMAIN v :
                      \E e \in DOMAIN entry : entry[e].name = v[i] /\ ~entry[e].isDir
                /\ \A i, j \in DOMAIN v :
                      i < j => IndexOf(DiscoveryOrder, v[i]) < IndexOf(DiscoveryOrder, v[j])

(***************************************************************************)
(* The cache-location variables of the environment                         *)
(***************************************************************************)
\* the environments a server is started in: each variable unset or set by the
\* caller
CallerValue == "/caller/cache"
Environments == [EnvNames -> {"", CallerValue}]

\* one caller on a host of ConcurrentHosts, in any of the environments
InitEnv ==
    /\ ConcurrentHosts
    /\ listed = <<>>
    /\ selected = <<>>
    /\ active = {"c1"}
    /\ models = [m \in {} |-> NoClient]
    /\ processes = <<>>
    /\ loading = {}
    /\ pc = [c \in Callers |-> "idle"]
    /\ req = [c \in Callers |-> NoRequest]
    /\ bl = [c \in Callers |-> NoBackendCall]
    /\ gl = [c \in Callers |-> NoGreedy]
    /\ ld = [c \in Callers |-> NoLoad]
    /\ res = [c \in Callers |-> NoResult]
    /\ tr = [c \in Callers |-> NoTrace]
    /\ Background(NoWatchDogOptions)
    /\ env \in Environments
    /\ boot = NoBoot

SpecEnv == InitEnv /\ [][Next]_vars

\* the step is the start of the loader of some call
LoaderStarts == \E c \in Callers : pc[c] = "gm_start" /\ pc'[c] # "gm_start"

\* C24: a step never changes a cache-location variable that holds a non-empty
\* value; a variable changes only when a loader starts, from unset or empty to
\* the model path, and every start of a loader leaves no variable empty.
C24_EnvDefaultsOnly ==
    [][\A v \in EnvNames :
          /\ env[v] # "" => env'[v] = env[v]
          /\ env'[v] # env[v] => (LoaderStarts /\ env'[v] = ModelPath)
          /\ (LoaderStarts /\ env[v] = "") => env'[v] = ModelPath]_vars

\* after a load, the variable the caller had set holds the caller's value and
\* the two it had not set hold the model path
C24_Witness ==
    /\ env["HF_HOME"] = CallerValue
    /\ env["TRANSFORMERS_CACHE"] = ModelPath
    /\ env["HUGGINGFACE_HUB_CACHE"] = ModelPath
    /\ \E c \in Callers : pc[c] = "done"

(***************************************************************************)
(* Startup preloads a model of options.LoadToMemory                        *)
(***************************************************************************)
\* what Startup returns: whether the three loaders are non-nil, and the error
Returned(loaders, err) == [state |-> "returned", loaders |-> loaders, err |-> err]

\* "if backendErr != nil { return nil, nil, nil, err }": the error returned
PreloadError(err, backendErr) == err

\* the head of the loop over LoadToMemory: the model's configuration file is
\* read, then its GGUF data; a failure of the first returns its error, a
\* failure of the second goes on to the next model, of which there is none
StartupConfig ==
    /\ boot.state = "start"
    /\ \E cfgOk \in BOOLEAN, ggufOk \in BOOLEAN :
         boot' = IF ~cfgOk THEN Returned(FALSE, "cannot load config file")
                 ELSE IF ~ggufOk THEN Returned(TRUE, "")
                 ELSE [boot EXCEPT !.state = "loading"]
    /\ UNCHANGED <<hostVars, env, listed, selected, loadVars, options, ctx, stopAll, wd>>

\* BackendLoader or GreedyLoader returned to Startup; err is nil here, both
\* assignments to it having been tested before
StartupReturn ==
    /\ boot.state = "loading"
    /\ pc["c1"] = "done"
    /\ boot' = IF res["c1"].err # <<>>
               THEN Returned(FALSE, PreloadError("", res["c1"].err))
               ELSE Returned(TRUE, "")
    /\ UNCHANGED <<hostVars, env, listed, selected, loadVars, options, ctx, stopAll, wd>>

\* Startup with one model in options.LoadToMemory, the preload being the
\* request of c1
InitStartup ==
    /\ ConcurrentHosts
    /\ listed = <<>>
    /\ selected = <<>>
    /\ active = {"c1"}
    /\ models = [m \in {} |-> NoClient]
    /\ processes = <<>>
    /\ loading = {}
    /\ pc = [c \in Callers |-> "idle"]
    /\ req = [c \in Callers |-> NoRequest]
    /\ bl = [c \in Callers |-> NoBackendCall]
    /\ gl = [c \in Callers |-> NoGreedy]
    /\ ld = [c \in Callers |-> NoLoad]
    /\ res = [c \in Callers |-> NoResult]
    /\ tr = [c \in Callers |-> NoTrace]
    /\ Background(NoWatchDogOptions)
    /\ env = EnvUnset
    /\ boot = [state |-> "start", loaders |-> FALSE, err |-> ""]

NextStartup ==
    \/ Next
    \/ StartupConfig
    \/ StartupReturn

SpecStartup == InitStartup /\ [][NextStartup]_vars

\* C25: when Startup has returned nil loaders, the error it returned is not
\* nil; in particular when the preload failed in BackendLoader or GreedyLoader.
C25_NilLoadersHaveError ==
    (boot.state = "returned" /\ ~boot.loaders) => boot.err # ""

(***************************************************************************)
(* The options of the BackendLoader calls GreedyLoader makes               *)
(***************************************************************************)
\* C26: while a BackendLoader call made by GreedyLoader runs, its options are
\* those of the GreedyLoader request but for the backend name: the same model,
\* external backends and F16 flag, the same number of health-check attempts
\* and the same single-active-backend flag.
C26_CandidateOptionsUnchanged ==
    \A c \in Callers :
        (req[c].kind = "greedy" /\ bl[c] # NoBackendCall) =>
            /\ bl[c].model = req[c].model
            /\ bl[c].externalBackends = req[c].externalBackends
            /\ bl[c].f16 = req[c].f16
            /\ bl[c].grpcAttempts = req[c].grpcAttempts
            /\ bl[c].singleActiveBackend = req[c].singleActiveBackend

====
